---- MODULE Spec2Model ----
(***************************************************************************)
(* A model of src/src/task_manager.py: the SQLite table `tasks` kept by    *)
(* TaskManager, the engine operations add / update_status / delete /       *)
(* list_tasks / stats, and the argparse command surface in front of them.  *)
(*                                                                         *)
(* Text that the code compares, searches or parses (title, description,    *)
(* search term, deadline, created_at, updated_at) is a sequence of         *)
(* one-character strings, so that LIKE, the ORDER BY text comparison and   *)
(* date.fromisoformat are computed character by character.  Enumeration    *)
(* values (priority, status) are compared only for equality and are        *)
(* strings.  tags is the Python list; the column holds json.dumps(tags)    *)
(* and _row_to_task reads it back with json.loads, nothing else reads it.  *)
(***************************************************************************)
EXTENDS Integers, Sequences, FiniteSets, TLC

VARIABLES
    tasks,   \* the rows of table `tasks`
    seq,     \* sqlite_sequence: the largest id AUTOINCREMENT has handed out
    issued,  \* history: the ids returned by add so far
    call,    \* history: the last operation invoked and its arguments
    ret      \* history: what that operation returned or raised

vars == <<tasks, seq, issued, call, ret>>

\* The number of rows inserted in one run is capped: add is disabled after it.
MaxId == 2

-----------------------------------------------------------------------------
(* Values *)

Priority == {"low", "medium", "high", "urgent"}

Status == {"pending", "in_progress", "done", "cancelled"}

\* Optional[...]: None, or a value.
None == [some |-> FALSE, v |-> <<>>]

Some(x) == [some |-> TRUE, v |-> x]

\* Python truthiness of an Optional[str] holding text: None and "" are falsy.
Truthy(o) == o.some /\ o.v # <<>>

\* Optional[str] holding an enumeration value (or any other word).
NoName == [some |-> FALSE, v |-> ""]

\* Python truthiness of such a value: None and "" are falsy.
TruthyName(o) == o.some /\ o.v # ""

\* The code point of a character (the ASCII characters the inputs use).
Ord(c) ==
    CASE c = "%" -> 37 [] c = "-" -> 45 [] c = "." -> 46
      [] c = "0" -> 48 [] c = "1" -> 49 [] c = "2" -> 50 [] c = "3" -> 51
      [] c = "4" -> 52 [] c = "5" -> 53 [] c = "6" -> 54 [] c = "7" -> 55
      [] c = "8" -> 56 [] c = "9" -> 57
      [] c = "A" -> 65 [] c = "B" -> 66 [] c = "C" -> 67
      [] c = "_" -> 95
      [] c = "a" -> 97 [] c = "b" -> 98 [] c = "c" -> 99

IsDigit(c) == Ord(c) >= 48 /\ Ord(c) <= 57

DigitVal(c) == Ord(c) - 48

DigitChar(n) == CASE n = 0 -> "0" [] n = 1 -> "1" [] n = 2 -> "2" [] n = 3 -> "3"
                  [] n = 4 -> "4" [] n = 5 -> "5" [] n = 6 -> "6" [] n = 7 -> "7"
                  [] n = 8 -> "8" [] n = 9 -> "9"

\* SQLite's BINARY collation on TEXT (memcmp): a < b.
RECURSIVE TextLess(_, _)
TextLess(a, b) ==
    IF b = <<>> THEN FALSE
    ELSE IF a = <<>> THEN TRUE
    ELSE IF Head(a) = Head(b) THEN TextLess(Tail(a), Tail(b))
    ELSE Ord(Head(a)) < Ord(Head(b))

\* SQLite's LIKE folds the case of ASCII letters only.
Fold(c) == IF Ord(c) >= 97 /\ Ord(c) <= 122
           THEN (CASE c = "a" -> "A" [] c = "b" -> "B" [] c = "c" -> "C")
           ELSE c

\* SQLite's  s LIKE pat  (no ESCAPE): % matches any run of characters, _ any
\* one character, every other character itself up to ASCII case.
RECURSIVE Like(_, _)
Like(pat, s) ==
    IF pat = <<>> THEN s = <<>>
    ELSE IF Head(pat) = "%"
         THEN Like(Tail(pat), s) \/ (s # <<>> /\ Like(pat, Tail(s)))
    ELSE /\ s # <<>>
         /\ (Head(pat) = "_" \/ Fold(Head(pat)) = Fold(Head(s)))
         /\ Like(Tail(pat), Tail(s))

\* f"%{search}%"
LikePattern(search) == <<"%">> \o search \o <<"%">>

\* datetime.now(): a reading of the local wall clock, <<second, tenth>>.  The
\* clock is naive local time: nothing orders one reading after an earlier one.
Readings == {<<0, 5>>, <<1, 0>>}

\* datetime.isoformat(): fixed-width fields, the fraction left out when it is 0.
isoformat(t) ==
    <<DigitChar(t[1])>> \o (IF t[2] = 0 THEN <<>> ELSE <<".", DigitChar(t[2])>>)

\* Days in a month of the proleptic Gregorian calendar.
DaysInMonth(y, m) ==
    IF m = 2 THEN (IF (y % 4 = 0 /\ y % 100 # 0) \/ y % 400 = 0 THEN 29 ELSE 28)
    ELSE IF m \in {4, 6, 9, 11} THEN 30 ELSE 31

\* date.fromisoformat(s), the YYYY-MM-DD form: the date, or ValueError.
fromisoformat(s) ==
    IF /\ Len(s) = 10
       /\ s[5] = "-" /\ s[8] = "-"
       /\ \A i \in {1, 2, 3, 4, 6, 7, 9, 10} : IsDigit(s[i])
    THEN LET y == DigitVal(s[1]) * 1000 + DigitVal(s[2]) * 100
                  + DigitVal(s[3]) * 10 + DigitVal(s[4])
             m == DigitVal(s[6]) * 10 + DigitVal(s[7])
             d == DigitVal(s[9]) * 10 + DigitVal(s[10])
         IN  IF y >= 1 /\ m >= 1 /\ m <= 12 /\ d >= 1 /\ d <= DaysInMonth(y, m)
             THEN [ok |-> TRUE, date |-> <<y, m, d>>]
             ELSE [ok |-> FALSE, date |-> <<0, 0, 0>>]
    ELSE [ok |-> FALSE, date |-> <<0, 0, 0>>]

\* date < date
DateLess(a, b) ==
    \/ a[1] < b[1]
    \/ a[1] = b[1] /\ a[2] < b[2]
    \/ a[1] = b[1] /\ a[2] = b[2] /\ a[3] < b[3]

\* What an operation hands back: a value of some kind, or an exception.
Returned(kind, val) == [kind |-> kind, val |-> val]

Raised(exc) == [kind |-> "raise", val |-> exc]

-----------------------------------------------------------------------------
(* The table and the engine: class TaskManager *)

Max(S) == CHOOSE x \in S : \A y \in S : y <= x

\* The arguments of TaskManager.add.
AddArgs(title, description, priority, deadline, tags, notes) ==
    [title |-> title, description |-> description, priority |-> priority,
     deadline |-> deadline, tags |-> tags, notes |-> notes]

\* INTEGER PRIMARY KEY without AUTOINCREMENT: one more than the largest rowid
\* now in the table, so the id of a deleted last row is handed out again.
lastrowid_reused(rows, s) == Max({0} \cup {r.id : r \in rows}) + 1

\* INTEGER PRIMARY KEY AUTOINCREMENT: the new rowid is one more than the
\* largest rowid the table has ever held (sqlite_sequence), deleted rows included.
lastrowid(rows, s) == Max({s} \cup {r.id : r \in rows}) + 1

\* The statement without its WHERE clause: every row.
WhereId_missing(rows, task_id) == rows

\* WHERE id=?
WhereId(rows, task_id) == {r \in rows : r.id = task_id}

\* cur.rowcount >= 0: true of every statement.
Matched_always(hit) == Cardinality(hit) >= 0

\* cur.rowcount > 0
Matched(hit) == Cardinality(hit) > 0

\* SET status=?,updated_at=?
SetStatus(r, new_status, now) ==
    [r EXCEPT !.status = new_status, !.updated_at = isoformat(now)]

\* The row INSERTed by add: status is Task's default, both stamps are `now`.
InsertedRow(id, a, now) ==
    [id |-> id, title |-> a.title, description |-> a.description,
     priority |-> a.priority, status |-> "pending", deadline |-> a.deadline,
     tags |-> a.tags, notes |-> a.notes,
     created_at |-> isoformat(now), updated_at |-> isoformat(now)]

\* TaskManager.add.  Priority(priority) raises ValueError before any statement
\* runs; otherwise the row is inserted and the task comes back with its id.
add(via, a, now) ==
    /\ call' = [op |-> "add", via |-> via, args |-> a]
    /\ IF a.priority \notin Priority
       THEN /\ ret' = Raised("ValueError")
            /\ UNCHANGED <<tasks, seq, issued>>
       ELSE /\ seq < MaxId
            /\ LET id == lastrowid(tasks, seq)
                   row == InsertedRow(id, a, now)
               IN  /\ tasks' = tasks \cup {row}
                   /\ seq' = id
                   /\ issued' = issued \cup {id}
                   /\ ret' = Returned("task", row)

\* TaskManager.update_status: no check of new_status; rowcount > 0.
update_status(via, task_id, new_status, now) ==
    LET hit == WhereId(tasks, task_id)
    IN  /\ call' = [op |-> "update_status", via |-> via,
                    args |-> [id |-> task_id, new_status |-> new_status]]
        /\ tasks' = (tasks \ hit) \cup {SetStatus(r, new_status, now) : r \in hit}
        /\ ret' = Returned("bool", Matched(hit))
        /\ UNCHANGED <<seq, issued>>

\* TaskManager.delete: rowcount > 0.
delete(via, task_id) ==
    LET hit == WhereId(tasks, task_id)
    IN  /\ call' = [op |-> "delete", via |-> via, args |-> [id |-> task_id]]
        /\ tasks' = tasks \ hit
        /\ ret' = Returned("bool", Matched(hit))
        /\ UNCHANGED <<seq, issued>>

\* Task.is_overdue, with date.today() = today.
is_overdue(t, today) ==
    IF ~Truthy(t.deadline) \/ t.status \in {"done", "cancelled"} THEN FALSE
    ELSE LET d == fromisoformat(t.deadline.v)
         IN  IF d.ok THEN DateLess(d.date, today) ELSE FALSE

\* The filters of list_tasks.
Filters(status, priority, search) ==
    [status |-> status, priority |-> priority, search |-> search]

NoFilters == Filters(NoName, NoName, None)

\* The WHERE clause list_tasks builds: a filter that is None or "" adds nothing.
Selected(rows, f) ==
    {r \in rows :
        /\ TruthyName(f.status) => r.status = f.status.v
        /\ TruthyName(f.priority) => r.priority = f.priority.v
        /\ Truthy(f.search) =>
              \/ Like(LikePattern(f.search.v), r.title)
              \/ Like(LikePattern(f.search.v), r.description)}

\* CASE priority WHEN 'urgent' THEN 1 WHEN 'high' THEN 2 WHEN 'medium' THEN 3 ELSE 4 END
PriorityRank(p) ==
    CASE p = "urgent" -> 1 [] p = "high" -> 2 [] p = "medium" -> 3 [] OTHER -> 4

\* deadline NULLS LAST: text order among the non-NULL, NULL after them.
DeadlineBefore(a, b) ==
    \/ a.some /\ ~b.some
    \/ a.some /\ b.some /\ TextLess(a.v, b.v)

\* The ORDER BY clause: row a sorts strictly before row b.
OrderedBefore(a, b) ==
    \/ PriorityRank(a.priority) < PriorityRank(b.priority)
    \/ /\ PriorityRank(a.priority) = PriorityRank(b.priority)
       /\ \/ DeadlineBefore(a.deadline, b.deadline)
          \/ a.deadline = b.deadline /\ TextLess(a.created_at, b.created_at)

\* fetchall(): the selected rows, each once, in an order ORDER BY allows (rows
\* that tie on all three keys come in either order).
Fetched(sel) ==
    {s \in [1..Cardinality(sel) -> sel] :
        /\ \A i, j \in DOMAIN s : i # j => s[i] # s[j]
        /\ \A i, j \in DOMAIN s : i < j => ~OrderedBefore(s[j], s[i])}

\* _row_to_task: Priority(row["priority"]) and Status(row["status"]) raise
\* ValueError on a value outside the enumeration.
row_to_task(r) ==
    IF r.priority \in Priority /\ r.status \in Status
    THEN Returned("task", r)
    ELSE Raised("ValueError")

\* What list_tasks can hand back: the converted rows, or the first ValueError.
list_tasks_results(rows, f) ==
    {IF \E i \in DOMAIN s : row_to_task(s[i]).kind = "raise"
     THEN Raised("ValueError")
     ELSE Returned("tasks", [i \in DOMAIN s |-> row_to_task(s[i]).val])
       : s \in Fetched(Selected(rows, f))}

\* The counters stats derives from a list of tasks.
Counters(l, today) ==
    [total |-> Len(l),
     by_status |-> [st \in {l[i].status : i \in DOMAIN l} |->
                      Cardinality({i \in DOMAIN l : l[i].status = st})],
     by_priority |-> [pr \in {l[i].priority : i \in DOMAIN l} |->
                      Cardinality({i \in DOMAIN l : l[i].priority = pr})],
     overdue |-> Cardinality({i \in DOMAIN l : is_overdue(l[i], today)})]

\* TaskManager.list_tasks
list_tasks(via, f) ==
    /\ call' = [op |-> "list_tasks", via |-> via, args |-> f]
    /\ \E out \in list_tasks_results(tasks, f) : ret' = out
    /\ UNCHANGED <<tasks, seq, issued>>

\* TaskManager.stats, with date.today() = today: list_tasks() and the counters.
stats(via, today) ==
    /\ call' = [op |-> "stats", via |-> via, args |-> [today |-> today]]
    /\ \E out \in list_tasks_results(tasks, NoFilters) :
          ret' = IF out.kind = "raise" THEN out
                 ELSE Returned("stats", Counters(out.val, today))
    /\ UNCHANGED <<tasks, seq, issued>>

\* TaskManager.export_json: list_tasks() and the number of records written.
export_json(via) ==
    /\ call' = [op |-> "export_json", via |-> via, args |-> <<>>]
    /\ \E out \in list_tasks_results(tasks, NoFilters) :
          ret' = IF out.kind = "raise" THEN out
                 ELSE Returned("count", Len(out.val))
    /\ UNCHANGED <<tasks, seq, issued>>

-----------------------------------------------------------------------------
(* The engine driven through its Python API *)

\* A status outside the enumeration, next to the four inside it.
StatusInputs == Status \cup {"archived"}

IdInputs == 1..MaxId

Deadline_Yesterday == <<"2", "0", "2", "4", "-", "0", "6", "-", "1", "4">>

Deadline_Tomorrow == <<"2", "0", "2", "4", "-", "0", "6", "-", "1", "6">>

AddInputs ==
    { AddArgs(<<"A", "b">>, <<>>, "low", None, <<>>, <<>>),
      AddArgs(<<"b">>, <<"A">>, "urgent", Some(Deadline_Yesterday), << <<"x">> >>, <<"n">>),
      AddArgs(<<"C">>, <<>>, "critical", None, <<>>, <<>>) }

Init ==
    /\ tasks = {}
    /\ seq = 0
    /\ issued = {}
    /\ call = [op |-> "init", via |-> "api", args |-> <<>>]
    /\ ret = Returned("none", <<>>)

Add == \E a \in AddInputs, now \in Readings : add("api", a, now)

\* A status of the enumeration to move to, the default to move back to, and
\* one outside the enumeration.
UpdateInputs == {"done", "pending", "archived"}

UpdateStatus ==
    \E id \in IdInputs, s \in UpdateInputs, now \in Readings :
        update_status("api", id, s, now)

Delete == \E id \in IdInputs : delete("api", id)

Next == Add \/ UpdateStatus \/ Delete

Spec == Init /\ [][Next]_vars

-----------------------------------------------------------------------------
(* The engine's queries over the tables its operations build *)

Deadline_Unpadded == <<"2", "0", "2", "4", "-", "6", "-", "1">>

QueryAddInputs ==
    { AddArgs(<<"A", "b">>, <<>>, "low", None, <<>>, <<>>),
      AddArgs(<<"b">>, <<"A">>, "urgent", Some(Deadline_Yesterday), << <<"x">> >>, <<"n">>),
      AddArgs(<<"C">>, <<>>, "urgent", Some(Deadline_Tomorrow), <<>>, <<>>),
      AddArgs(<<"c">>, <<"a", "_">>, "high", Some(Deadline_Unpadded), <<>>, <<>>) }

SearchInputs == {<<"a">>, <<"b">>, <<"_">>}

\* Each filter alone with every value, and the filters combined.
QueryFilters ==
    {NoFilters}
    \cup {Filters(Some(st), NoName, None) : st \in Status}
    \cup {Filters(NoName, Some(pr), None) : pr \in Priority}
    \cup {Filters(NoName, NoName, Some(q)) : q \in SearchInputs}
    \cup {Filters(Some("pending"), Some("urgent"), None),
          Filters(Some("done"), NoName, Some(<<"a">>)),
          Filters(NoName, Some("urgent"), Some(<<"b">>)),
          Filters(Some("pending"), Some("low"), Some(<<"b">>))}

Todays == {<<2024, 6, 15>>}

QAdd == \E a \in QueryAddInputs, now \in Readings : add("api", a, now)

QUpdateStatus ==
    \E id \in IdInputs, s \in StatusInputs, now \in Readings :
        update_status("api", id, s, now)

ListTasks == \E f \in QueryFilters : list_tasks("api", f)

Stats == \E today \in Todays : stats("api", today)

NextQuery == QAdd \/ QUpdateStatus \/ Delete \/ ListTasks \/ Stats

SpecQuery == Init /\ [][NextQuery]_vars

-----------------------------------------------------------------------------
(* The command surface: build_parser, main and the cmd_* functions *)

\* str.strip() of the blanks around a piece.
RECURSIVE Strip(_)
Strip(t) ==
    IF t = <<>> THEN t
    ELSE IF Head(t) = " " THEN Strip(Tail(t))
    ELSE IF t[Len(t)] = " " THEN Strip(SubSeq(t, 1, Len(t) - 1))
    ELSE t

\* str.split(",")
RECURSIVE SplitComma(_)
SplitComma(t) ==
    IF \E i \in DOMAIN t : t[i] = ","
    THEN LET i == CHOOSE k \in DOMAIN t :
                      t[k] = "," /\ \A m \in 1..(k - 1) : t[m] # ","
         IN  <<SubSeq(t, 1, i - 1)>> \o SplitComma(SubSeq(t, i + 1, Len(t)))
    ELSE <<t>>

\* [x.strip() for x in args.tags.split(",")] if args.tags else []
ParseTags(tags) ==
    IF Truthy(tags)
    THEN LET parts == SplitComma(tags.v)
         IN  [i \in DOMAIN parts |-> Strip(parts[i])]
    ELSE <<>>

\* argparse stops the process (SystemExit) before main builds the TaskManager.
usage_error(command, argv) ==
    /\ call' = [op |-> "usage_error", via |-> "cli",
                args |-> [command |-> command, argv |-> argv]]
    /\ ret' = Raised("SystemExit")
    /\ UNCHANGED <<tasks, seq, issued>>

\* `add TITLE [--description D] [--priority P] [--deadline YYYY-MM-DD] [--tags T]
\* [--notes N]`: --priority has choices and a default, --deadline only a metavar.
cmd_add(argv, now) ==
    IF argv.priority.some /\ argv.priority.v \notin Priority
    THEN usage_error("add", argv)
    ELSE add("cli",
             AddArgs(argv.title, argv.description,
                     IF argv.priority.some THEN argv.priority.v ELSE "medium",
                     argv.deadline, ParseTags(argv.tags), argv.notes),
             now)

\* `list [--filter-status S] [--filter-priority P] [--search TERM]`: no option
\* has choices.
cmd_list(argv) == list_tasks("cli", Filters(argv.status, argv.priority, argv.search))

\* `update ID STATUS`: STATUS has choices.
cmd_update(argv, now) ==
    IF argv.new_status \notin Status
    THEN usage_error("update", argv)
    ELSE update_status("cli", argv.id, argv.new_status, now)

\* `status`
cmd_status(today) == stats("cli", today)

\* `export`
cmd_export == export_json("cli")

CliArgs(title, priority, deadline, tags) ==
    [title |-> title, description |-> <<>>, priority |-> priority,
     deadline |-> deadline, tags |-> tags, notes |-> <<>>]

CliAddInputs ==
    { CliArgs(<<"A", "b">>, NoName, None, None),
      CliArgs(<<"b">>, Some("urgent"), Some(Deadline_Yesterday),
              Some(<<"x", ",", " ", "y">>)),
      CliArgs(<<"C">>, Some("low"), Some(Deadline_Unpadded), None),
      CliArgs(<<"C">>, Some("critical"), None, None) }

CliListInputs ==
    { NoFilters,
      Filters(Some("done"), NoName, None),
      Filters(Some("archived"), NoName, None),
      Filters(NoName, Some("urgent"), None),
      Filters(NoName, Some("critical"), None),
      Filters(NoName, NoName, Some(<<"a">>)) }

CmdAdd == \E argv \in CliAddInputs, now \in Readings : cmd_add(argv, now)

CmdList == \E argv \in CliListInputs : cmd_list(argv)

CmdUpdate ==
    \E id \in IdInputs, st \in StatusInputs, now \in Readings :
        cmd_update([id |-> id, new_status |-> st], now)

CmdStatus == \E today \in Todays : cmd_status(today)

CmdExport == cmd_export

NextCli == CmdAdd \/ CmdList \/ CmdUpdate \/ CmdStatus \/ CmdExport

SpecCli == Init /\ [][NextCli]_vars

-----------------------------------------------------------------------------
(* Properties of add / update_status / delete, checked under Spec *)

Stored(task_id) == \E r \in tasks : r.id = task_id

\* The columns update_status must leave alone.
FrozenColumns ==
    {"id", "title", "description", "priority", "deadline", "tags", "notes",
     "created_at"}

\* C2: update_status(id, s) on a stored id returns true and changes only the
\* status and updated_at of that one task; its other columns and every other
\* row are as before.
C2_UpdateStatusFrame ==
    [][ (call'.op = "update_status" /\ Stored(call'.args.id)) =>
          /\ ret'.kind = "bool" /\ ret'.val = TRUE
          /\ \E r \in tasks, r2 \in tasks' :
                /\ r.id = call'.args.id
                /\ \A c \in FrozenColumns : r2[c] = r[c]
                /\ tasks' \ {r2} = tasks \ {r} ]_vars

\* An update of one of two stored tasks has moved it to done at another reading
\* of the clock than its creation.
C2_Witness ==
    /\ call.op = "update_status" /\ ret.kind = "bool" /\ ret.val = TRUE
    /\ Cardinality(tasks) = 2
    /\ \E r \in tasks : /\ r.id = call.args.id
                        /\ r.status = "done"
                        /\ r.updated_at # r.created_at

\* C3: every stored task's priority is one of low/medium/high/urgent and its
\* status one of pending/in_progress/done/cancelled, whatever the engine
\* operations called.
C3_EnumerationsAtStorage ==
    \A r \in tasks : r.priority \in Priority /\ r.status \in Status

\* C7: update_status and delete on an id that is not stored return false, raise
\* nothing and leave the table as it is; delete on a stored id returns true
\* and removes exactly that task.
C7_NotFoundAndDelete ==
    [][ /\ (call'.op \in {"update_status", "delete"} /\ ~Stored(call'.args.id)) =>
             /\ ret'.kind = "bool" /\ ret'.val = FALSE
             /\ tasks' = tasks
        /\ (call'.op = "delete" /\ Stored(call'.args.id)) =>
             /\ ret'.kind = "bool" /\ ret'.val = TRUE
             /\ \E r \in tasks : /\ r.id = call'.args.id
                                 /\ tasks' = tasks \ {r}
                                 /\ ~(\E r2 \in tasks' : r2.id = r.id) ]_vars

\* delete was called with the id of a task deleted earlier, another task still
\* being stored, and said false.
C7_Witness ==
    /\ call.op = "delete" /\ ret.kind = "bool" /\ ret.val = FALSE
    /\ call.args.id \in issued
    /\ tasks # {}

\* C9: the id add returns differs from the id of every earlier add, deleted
\* tasks included; no two stored tasks share an id; no operation changes the
\* id of a stored task (a row leaves its id only by delete of that id).
C9_IdsUniqueAndStable ==
    [][ /\ (call'.op = "add" /\ ret'.kind = "task") =>
             /\ ret'.val.id \notin issued
             /\ ret'.val \in tasks'
             /\ issued' = issued \cup {ret'.val.id}
        /\ \A r1 \in tasks', r2 \in tasks' : r1.id = r2.id => r1 = r2
        /\ \A r \in tasks :
             \/ \E r2 \in tasks' : r2.id = r.id /\ r2.title = r.title
                                   /\ r2.created_at = r.created_at
             \/ call'.op = "delete" /\ call'.args.id = r.id
        /\ \A r2 \in tasks' :
             \/ \E r \in tasks : r.id = r2.id
             \/ call'.op = "add" /\ ret'.kind = "task" /\ ret'.val = r2 ]_vars

\* add has returned a task after an earlier task was deleted.
C9_Witness ==
    /\ call.op = "add" /\ ret.kind = "task"
    /\ tasks # {}
    /\ Cardinality(tasks) < Cardinality(issued)

\* C10: created_at keeps the value add stamped, updated_at equals created_at
\* right after add, and updated_at never decreases nor falls below created_at.
C10_StampsMonotone ==
    [][ /\ (call'.op = "add" /\ ret'.kind = "task") =>
             ret'.val.updated_at = ret'.val.created_at
        /\ \A r \in tasks, r2 \in tasks' :
             r2.id = r.id =>
                /\ r2.created_at = r.created_at
                /\ ~TextLess(r2.updated_at, r.updated_at)
                /\ ~TextLess(r2.updated_at, r2.created_at) ]_vars

-----------------------------------------------------------------------------
(* Properties of list_tasks and stats, checked under SpecQuery *)

Range(l) == {l[i] : i \in DOMAIN l}

\* term occurs in text as a literal substring, letter case included.
Contains(text, term) ==
    \E i \in 0..(Len(text) - Len(term)) : SubSeq(text, i + 1, i + Len(term)) = term

\* The deadline as a calendar date, when the text is one.
DeadlineDate(t) ==
    IF t.deadline.some THEN fromisoformat(t.deadline.v)
    ELSE [ok |-> FALSE, date |-> <<0, 0, 0>>]

\* The documented order allows a before b: priority rank first, then deadline
\* (dated tasks by date, tasks without a deadline after those with one), then
\* created_at among tasks with the same deadline.
DocumentedOrder(a, b) ==
    /\ PriorityRank(a.priority) <= PriorityRank(b.priority)
    /\ PriorityRank(a.priority) = PriorityRank(b.priority) =>
          /\ ~(~a.deadline.some /\ b.deadline.some)
          /\ (DeadlineDate(a).ok /\ DeadlineDate(b).ok) =>
                ~DateLess(DeadlineDate(b).date, DeadlineDate(a).date)
          /\ a.deadline = b.deadline => ~TextLess(b.created_at, a.created_at)

\* C1: list_tasks() with no filters returns every stored task exactly once, in
\* the documented order, whatever add/update_status/delete built the table.
C1_ListAllSorted ==
    (call.op = "list_tasks" /\ call.args = NoFilters) =>
        /\ ret.kind = "tasks"
        /\ Range(ret.val) = tasks
        /\ Len(ret.val) = Cardinality(tasks)
        /\ \A i, j \in DOMAIN ret.val : i < j => DocumentedOrder(ret.val[i], ret.val[j])

\* C4: list_tasks(search=TERM) returns exactly the stored tasks whose title or
\* description contains TERM as a literal, case-sensitive substring.
C4_SearchLiteralCaseSensitive ==
    (/\ call.op = "list_tasks"
     /\ ~call.args.status.some /\ ~call.args.priority.some
     /\ Truthy(call.args.search)) =>
        /\ ret.kind = "tasks"
        /\ Range(ret.val) =
             {r \in tasks : \/ Contains(r.title, call.args.search.v)
                            \/ Contains(r.description, call.args.search.v)}

\* The result the code gives for one filter alone.
AloneByStatus(st) == {r \in tasks : r.status = st}

AloneByPriority(pr) == {r \in tasks : r.priority = pr}

AloneBySearch(q) == Selected(tasks, Filters(NoName, NoName, Some(q)))

\* C6: with status S and priority P of the enumerations, list_tasks(status=S)
\* returns exactly the tasks of status S, list_tasks(priority=P) exactly those
\* of priority P, and several filters exactly the intersection of each alone.
C6_FiltersExactAndIntersect ==
    (/\ call.op = "list_tasks"
     /\ call.args # NoFilters
     /\ call.args.status.some => call.args.status.v \in Status
     /\ call.args.priority.some => call.args.priority.v \in Priority) =>
        /\ ret.kind = "tasks"
        /\ Len(ret.val) = Cardinality(Range(ret.val))
        /\ Range(ret.val) =
             {r \in tasks :
                /\ call.args.status.some => r \in AloneByStatus(call.args.status.v)
                /\ call.args.priority.some => r \in AloneByPriority(call.args.priority.v)
                /\ call.args.search.some => r \in AloneBySearch(call.args.search.v)}

\* The overdue predicate of the data model: a deadline is set, its date is
\* strictly before today, and the status is neither done nor cancelled.
Overdue(r, today) ==
    /\ DeadlineDate(r).ok
    /\ DateLess(DeadlineDate(r).date, today)
    /\ r.status \notin {"done", "cancelled"}

\* C8: stats()['overdue'] is the number of stored tasks that are overdue.
C8_OverdueCount ==
    call.op = "stats" =>
        /\ ret.kind = "stats"
        /\ ret.val.overdue = Cardinality({r \in tasks : Overdue(r, call.args.today)})

-----------------------------------------------------------------------------
(* Properties of the command surface, checked under SpecCli *)

\* C5: no engine operation is invoked from a command with an enumeration
\* value outside its enumeration or a deadline text that is not a date.
C5_MalformedInputRejected ==
    call.via = "cli" =>
        /\ call.op = "add" =>
              /\ call.args.priority \in Priority
              /\ call.args.deadline.some => fromisoformat(call.args.deadline.v).ok
        /\ call.op = "list_tasks" =>
              /\ call.args.status.some => call.args.status.v \in Status
              /\ call.args.priority.some => call.args.priority.v \in Priority
        /\ call.op = "update_status" => call.args.new_status \in Status

====
